---- MODULE Spec2Model ----
(***************************************************************************)
(* Snapline backend (src/app/app.py): the /upload, /feed and              *)
(* /posts/{post_id} handlers as concurrently running requests over the    *)
(* shared Post table, the User table, the local temporary directory and   *)
(* the remote media store.                                                *)
(***************************************************************************)
EXTENDS Integers, Sequences, FiniteSets, TLC

\* ------------------------------------------------------------------ bounds
\* Requests that may be in flight at the same time.
NumSlots == 2
\* Requests started in one behaviour.
MaxRequests == 2

Slots == 1..NumSlots

\* ------------------------------------------------------------- identities
\* The rows of the User table at start-up: u.id, and u.email as Email(u).
UserIds == {1, 2}
Email(u) == "user" \o ToString(u)
\* user_dict.get(post.user_id, "Unknown")
Unknown == "Unknown"

\* ---------------------------------------------------------------- strings
\* A text is a sequence of characters.  A uuid is a number n >= 1 whose one
\* hexadecimal digit is HexDigits[n]; str(uuid) is the lower-case digit.
HexDigits == <<"a", "b", "c", "d", "e", "f">>
UpperDigits == <<"A", "B", "C", "D", "E", "F">>

\* str(post.id), str(post.user_id)
StrUUID(n) == <<HexDigits[n]>>

\* uuid.UUID(hex) strips braces and hyphens before it reads the digits.
StripUUID(s) == SelectSeq(s, LAMBDA c : c \notin {"{", "}", "-"})

\* uuid.UUID(post_id) raises ValueError unless the stripped text is a
\* hexadecimal number of the right length (here: one digit, either case).
UUIDValid(s) ==
    /\ Len(StripUUID(s)) = 1
    /\ \E n \in DOMAIN HexDigits :
          StripUUID(s)[1] \in {HexDigits[n], UpperDigits[n]}

UUIDParse(s) ==
    CHOOSE n \in DOMAIN HexDigits :
        StripUUID(s)[1] \in {HexDigits[n], UpperDigits[n]}

\* post.created_at.isoformat()
IsoFormat(t) == "T" \o ToString(t)

\* file.content_type values sent by clients; NoContentType is a part with no
\* Content-Type header (content_type is None).
VideoMp4 == <<"v", "i", "d", "e", "o", "/", "m", "p", "4">>
ImagePng == <<"i", "m", "a", "g", "e", "/", "p", "n", "g">>
VideoNoSlash == <<"v", "i", "d", "e", "o">>
NoContentType == <<"None">>
ContentTypes == {VideoMp4, ImagePng, VideoNoSlash, NoContentType}
Captions == {"hi"}

\* str.startswith
StartsWith(s, p) == Len(s) >= Len(p) /\ SubSeq(s, 1, Len(p)) = p

\* post_id path parameters sent by clients.
PostIdInputs ==
    {<<"a">>, <<"{", "B", "}">>, <<"c">>, <<"f">>, <<"z">>}

\* ------------------------------------------------------------------ state
VARIABLES
    posts,      \* committed rows of the Post table
    users,      \* ids of the rows of the User table
    tmp_files,  \* paths existing in the temporary directory
    media,      \* objects held by the remote media store
    clock,      \* latest created_at handed out
    req,        \* per slot: the request in flight, its locals and response
    started,    \* requests started so far; request number started + 1 is
                \* the next, and names what the request creates afresh
    acked       \* ids of posts whose delete was acknowledged to the owner

vars == <<posts, users, tmp_files, media, clock, req, started, acked>>

Idle == [kind |-> "idle", pc |-> "idle"]

\* A request arrives: it takes the first free slot, while requests remain.
Arrives(r) ==
    /\ req[r].kind = "idle"
    /\ \A q \in Slots : q < r => req[q].kind /= "idle"
    /\ started < MaxRequests

NoPath == 0
NoPost == [id |-> 0]
NoResult == [status |-> 0]

\* Two uploads made before the behaviours start, one by each identity: the
\* rows they left in the Post table and the objects in the media store.
InitialPosts ==
    {[id |-> 1, user_id |-> 1, caption |-> "first",
      url |-> "https://ik/a", file_type |-> "image", file_name |-> "file_a",
      created_at |-> 0],
     [id |-> 2, user_id |-> 2, caption |-> "second",
      url |-> "https://ik/b", file_type |-> "video", file_name |-> "file_b",
      created_at |-> 1]}

Init ==
    /\ posts = InitialPosts
    /\ users = UserIds
    /\ tmp_files = {}
    /\ media = {p.file_name : p \in InitialPosts}
    /\ clock = 1
    /\ req = [r \in Slots |-> Idle]
    /\ started = 0
    /\ acked = {}

\* ------------------------------------------------------------- exceptions
\* An exception in flight: HTTPException(status_code, detail), or any other
\* exception with its message.
HTTPException(code, text) ==
    [type |-> "HTTPException", status_code |-> code, detail |-> text]
Error(text) == [type |-> "Exception", status_code |-> 0, detail |-> text]

\* str(e): an HTTPException prints as "<status_code>: <detail>".
StrExc(e) ==
    IF e.type = "HTTPException"
    THEN ToString(e.status_code) \o ": " \o e.detail
    ELSE e.detail

\* The response the framework sends for an HTTPException leaving a handler.
ErrorResponse(e) == [status |-> e.status_code, detail |-> e.detail]

\* The response for any other exception leaving a handler, and for a request
\* without a valid token (the current_active_user dependency).
InternalServerError == [status |-> 500, detail |-> "Internal Server Error"]
Unauthorized == [status |-> 401, detail |-> "Unauthorized"]

\* The response for a handler that returns None.
NullResponse == [status |-> 200, body |-> "null"]

\* --------------------------------------------------------------- /upload
HTTP_OK == 200
\* Statuses the media store answers with when it does not store the file.
FailureStatuses == {400}

\* Variant: any status from 200 up counts as stored.
UploadSucceededFrom200(upload_result) == upload_result.status >= HTTP_OK

\* if upload_result.response_metadata.http_status_code == 200
UploadSucceeded(upload_result) == upload_result.status = HTTP_OK

\* Variant: the prefix tested without its slash.
FileTypeNoSlash(content_type) ==
    IF StartsWith(content_type, <<"v", "i", "d", "e", "o">>)
    THEN "video" ELSE "image"

\* "video" if file.content_type.startswith('video/') else "image"
FileType(content_type) ==
    IF StartsWith(content_type, <<"v", "i", "d", "e", "o", "/">>)
    THEN "video" ELSE "image"

\* Variant: url and file_name taken from each other's field of the result.
NewPostSwapped(user, caption, content_type, upload_result, id, created_at) ==
    [id |-> id,
     user_id |-> user,
     caption |-> caption,
     url |-> upload_result.name,
     file_type |-> FileType(content_type),
     file_name |-> upload_result.url,
     created_at |-> created_at]

\* Post(user_id = ..., caption = ..., url = ..., file_type = ..., file_name = ...)
\* with the id and created_at the table's defaults give it at insert.
NewPost(user, caption, content_type, upload_result, id, created_at) ==
    [id |-> id,
     user_id |-> user,
     caption |-> caption,
     url |-> upload_result.url,
     file_type |-> FileType(content_type),
     file_name |-> upload_result.name,
     created_at |-> created_at]

\* The id the table's default (a random uuid) gives the row of request n.
NewId(n) == Cardinality(InitialPosts) + n

\* Variant: the except block prints the error and does not raise.
UploadExceptSwallowed(e) == NullResponse

\* except Exception as e: raise HTTPException(status_code = 500, detail = str(e))
UploadExcept(e) == ErrorResponse(HTTPException(500, StrExc(e)))

\* Variant: the finally block closes the stream and removes nothing.
CleanupTempSkipped(files, temp_file_path) == files

\* finally: if temp_file_path and os.path.exists(temp_file_path): os.unlink(...)
CleanupTemp(files, temp_file_path) ==
    IF temp_file_path /= NoPath /\ temp_file_path \in files
    THEN files \ {temp_file_path}
    ELSE files

\* Variant: every call stages under one fixed name.
TempNameFixed(n) == 1

\* tempfile.NamedTemporaryFile: a name no other call is given.
TempName(n) == n

\* What the media store returns for the object of request n
\* (use_unique_file_name = True).
StoredUrl(n) == "https://ik/" \o ToString(n)
StoredName(n) == "file_" \o ToString(n)

\* The record of a request at POST /upload with a valid token: the form
\* fields and the handler's locals (temp_file_path = None).
UploadRequest(u, ct, cap) ==
    [kind |-> "upload", pc |-> "stage", n |-> started + 1, user |-> u,
     caption |-> cap,
     content_type |-> ct, temp_file_path |-> NoPath,
     upload_result |-> NoResult, post |-> NoPost, resp |-> NullResponse]

\* The handler is left with response resp: the finally block runs on the
\* temporary directory as the step left it, and the response goes out.
Leave(r, request, files, resp) ==
    /\ tmp_files' = CleanupTemp(files, request.temp_file_path)
    /\ req' = [req EXCEPT ![r] = [request EXCEPT !.pc = "done",
                                                 !.resp = resp]]

\* The request arrives and the handler stages the inbound stream:
\* with tempfile.NamedTemporaryFile(delete = False, ...) as temp_file:
\*     temp_file_path = temp_file.name; shutil.copyfileobj(file.file, temp_file)
Stage(r) ==
    /\ Arrives(r)
    /\ \E u \in users, ct \in ContentTypes, cap \in Captions :
         LET new == UploadRequest(u, ct, cap)
             staged == [new EXCEPT !.temp_file_path = TempName(new.n)]
         IN \/ Leave(r, new, tmp_files, UploadExcept(Error("cannot create")))
            \/ Leave(r, staged, tmp_files \cup {staged.temp_file_path},
                     UploadExcept(Error("cannot copy")))
            \/ /\ tmp_files' = tmp_files \cup {staged.temp_file_path}
               /\ req' = [req EXCEPT ![r] = [staged EXCEPT !.pc = "remote"]]
    /\ started' = started + 1
    /\ UNCHANGED <<posts, users, media, clock, acked>>

\* upload_result = imagekit.upload_file(file = open(temp_file_path, "rb"), ...)
\* followed by the test of the status; a status other than 200 falls through
\* to the end of the handler, which returns None.
RemoteUpload(r) ==
    /\ req[r].kind = "upload" /\ req[r].pc = "remote"
    /\ \/ /\ req[r].temp_file_path \notin tmp_files
          /\ Leave(r, req[r], tmp_files, UploadExcept(Error("No such file")))
          /\ UNCHANGED media
       \/ /\ req[r].temp_file_path \in tmp_files
          /\ \/ \E status \in {HTTP_OK} \cup FailureStatuses :
                  LET n == req[r].n
                      result ==
                          IF status = HTTP_OK
                          THEN [status |-> status, url |-> StoredUrl(n),
                                name |-> StoredName(n)]
                          ELSE [status |-> status, url |-> "", name |-> ""]
                      got == [req[r] EXCEPT !.upload_result = result]
                  IN /\ media' = IF status = HTTP_OK
                                 THEN media \cup {StoredName(n)} ELSE media
                     /\ IF UploadSucceeded(result)
                        THEN /\ req' = [req EXCEPT ![r] =
                                          [got EXCEPT !.pc = "commit"]]
                             /\ UNCHANGED tmp_files
                        ELSE Leave(r, got, tmp_files, got.resp)
             \/ /\ Leave(r, [req[r] EXCEPT !.upload_result = [status |-> -1]],
                         tmp_files, UploadExcept(Error("upload failed")))
                /\ UNCHANGED media
    /\ UNCHANGED <<posts, users, clock, started, acked>>

\* post = Post(...); session.add(post); await session.commit()
Commit(r) ==
    /\ req[r].kind = "upload" /\ req[r].pc = "commit"
    /\ \/ /\ req[r].content_type = NoContentType
          /\ Leave(r, req[r], tmp_files, UploadExcept(Error("NoneType")))
          /\ UNCHANGED <<posts, clock>>
       \/ /\ req[r].content_type /= NoContentType
          /\ \/ \E t \in {clock, clock + 1} :
                  LET post == NewPost(req[r].user, req[r].caption,
                                      req[r].content_type,
                                      req[r].upload_result, NewId(req[r].n), t)
                  IN /\ posts' = posts \cup {post}
                     /\ clock' = t
                     /\ req' = [req EXCEPT ![r].post = post,
                                  ![r].pc = "refresh"]
                     /\ UNCHANGED tmp_files
             \/ /\ Leave(r, req[r], tmp_files,
                         UploadExcept(Error("commit failed")))
                /\ UNCHANGED <<posts, clock>>
    /\ UNCHANGED <<users, media, started, acked>>

\* await session.refresh(post); return post.  The refresh reads the row
\* again: it raises when the read fails or the row is gone.
Refresh(r) ==
    /\ req[r].kind = "upload" /\ req[r].pc = "refresh"
    /\ \/ /\ req[r].post \in posts
          /\ Leave(r, req[r], tmp_files,
                   [status |-> 200, post |-> req[r].post])
       \/ Leave(r, req[r], tmp_files, UploadExcept(Error("refresh failed")))
    /\ UNCHANGED <<posts, users, media, clock, started,
                   acked>>

\* ----------------------------------------------------------------- /feed
\* Variant: order_by(Post.created_at.asc()).
OrderedByCreatedAtAsc(rows) ==
    {f \in [1..Cardinality(rows) -> rows] :
        /\ \A i, j \in DOMAIN f : i /= j => f[i] /= f[j]
        /\ \A i, j \in DOMAIN f : i < j => f[i].created_at <= f[j].created_at}

\* Variant: the query cut to its first row (.limit(1)).
OrderedFirstRowOnly(rows) ==
    {IF Len(f) = 0 THEN f ELSE SubSeq(f, 1, 1) :
        f \in {g \in [1..Cardinality(rows) -> rows] :
                 /\ \A i, j \in DOMAIN g : i /= j => g[i] /= g[j]
                 /\ \A i, j \in DOMAIN g :
                       i < j => g[i].created_at >= g[j].created_at}}

\* select(Post).order_by(Post.created_at.desc()): every ordering of the rows
\* with created_at descending (rows with equal created_at in any order).
OrderedByCreatedAtDesc(rows) ==
    {f \in [1..Cardinality(rows) -> rows] :
        /\ \A i, j \in DOMAIN f : i /= j => f[i] /= f[j]
        /\ \A i, j \in DOMAIN f : i < j => f[i].created_at >= f[j].created_at}

\* user_dict = {u.id : u.email for u in users}
UserDict(rows) == [u \in rows |-> Email(u)]

\* Variant: the comparison inverted.
IsOwnerInverted(post, user) == post.user_id /= user

\* "is_owner" : post.user_id == user.id
IsOwner(post, user) == post.user_id = user

\* Variant: the email of the owner looked up without the default.
EmailOfNoDefault(post, user_dict) == Email(post.user_id)

\* "email": user_dict.get(post.user_id, "Unknown")
EmailOf(post, user_dict) ==
    IF post.user_id \in DOMAIN user_dict THEN user_dict[post.user_id]
    ELSE Unknown

\* One element of posts_data.
PostView(post, user, user_dict) ==
    [id |-> StrUUID(post.id),
     user_id |-> StrUUID(post.user_id),
     caption |-> post.caption,
     url |-> post.url,
     file_type |-> post.file_type,
     file_name |-> post.file_name,
     created_at |-> IsoFormat(post.created_at),
     is_owner |-> IsOwner(post, user),
     email |-> EmailOf(post, user_dict)]

\* The record of a request at GET /feed with a valid token.
FeedRequest(u) ==
    [kind |-> "feed", pc |-> "posts", user |-> u, posts |-> <<>>,
     acked_before |-> acked, resp |-> NullResponse]

\* The request arrives and the handler queries the posts:
\* result = await session.execute(select(Post).order_by(...)); posts = [...]
FeedPosts(r) ==
    /\ Arrives(r)
    /\ \E u \in users :
         \/ \E rows \in OrderedByCreatedAtDesc(posts) :
              req' = [req EXCEPT ![r] =
                        [FeedRequest(u) EXCEPT !.posts = rows, !.pc = "users"]]
         \/ req' = [req EXCEPT ![r] =
                      [FeedRequest(u) EXCEPT !.pc = "done",
                         !.resp = InternalServerError]]
    /\ started' = started + 1
    /\ UNCHANGED <<posts, users, tmp_files, media, clock, acked>>

\* result = await session.execute(select(User)); ...; return {"posts" : posts_data}
FeedUsers(r) ==
    /\ req[r].kind = "feed" /\ req[r].pc = "users"
    /\ \/ LET user_dict == UserDict(users)
              posts_data == [i \in DOMAIN req[r].posts |->
                               PostView(req[r].posts[i], req[r].user,
                                        user_dict)]
          IN req' = [req EXCEPT ![r].pc = "done",
                       ![r].resp = [status |-> 200, posts |-> posts_data]]
       \/ req' = [req EXCEPT ![r].pc = "done",
                    ![r].resp = InternalServerError]
    /\ UNCHANGED <<posts, users, tmp_files, media, clock, started, acked>>

\* ------------------------------------------------- DELETE /posts/{post_id}
\* select(Post).where(Post.id == post_uuid) ... .first()
SelectPost(rows, post_uuid) ==
    IF \E p \in rows : p.id = post_uuid
    THEN CHOOSE p \in rows : p.id = post_uuid
    ELSE NoPost

\* Variant: the ownership check left out.
PermissionNeverDenied(post, user) == FALSE

\* Variant: the test turned round, the owner is the one refused.
PermissionDeniedInverted(post, user) == post.user_id = user

\* if post.user_id != user.id
PermissionDenied(post, user) == post.user_id /= user

\* Variant: the delete never reaches the table.
DeleteRowNotCommitted(rows, post) == rows

\* await session.delete(post); await session.commit()
DeleteRow(rows, post) == rows \ {post}

\* Variant: a malformed identifier is answered as a bad request of its own.
DeleteExceptBadRequest(e) ==
    IF e.type = "Exception" /\ e.detail = "badly formed UUID"
    THEN ErrorResponse(HTTPException(400, StrExc(e)))
    ELSE ErrorResponse(HTTPException(500, StrExc(e)))

\* except Exception as e: raise HTTPException(status_code = 500, detail = str(e))
\* around the whole body, the two raise HTTPException(...) included.
DeleteExcept(e) == ErrorResponse(HTTPException(500, StrExc(e)))

NotFound == HTTPException(404, "Post not found")
Forbidden ==
    HTTPException(403, "You dont have permission to delete this post")

\* return {"success" : True, "messsage": "Post deleted successfully"}
DeleteAck ==
    [status |-> 200, success |-> TRUE,
     messsage |-> "Post deleted successfully"]

\* The record of a request at DELETE /posts/{post_id} with a valid token.
DeleteRequest(u, s) ==
    [kind |-> "delete", pc |-> "lookup", user |-> u, post_id |-> s,
     post |-> NoPost, lookups |-> 0, removed |-> {}, db_raised |-> FALSE,
     resp |-> NullResponse]

\* The request arrives and the handler runs up to the delete:
\* post_uuid = uuid.UUID(post_id); the lookup; the two checks.
DeleteLookup(r) ==
    /\ Arrives(r)
    /\ \E u \in users, s \in PostIdInputs :
         LET new == DeleteRequest(u, s)
         IN IF ~UUIDValid(s)
            THEN req' = [req EXCEPT ![r] =
                           [new EXCEPT !.pc = "done",
                              !.resp = DeleteExcept(Error("badly formed UUID"))]]
            ELSE \/ LET post == SelectPost(posts, UUIDParse(s))
                    IN req' = [req EXCEPT ![r] =
                                 [new EXCEPT
                                    !.lookups = @ + 1,
                                    !.post = post,
                                    !.pc =
                                       IF post = NoPost
                                          \/ PermissionDenied(post, u)
                                       THEN "done" ELSE "commit",
                                    !.resp =
                                       IF post = NoPost
                                       THEN DeleteExcept(NotFound)
                                       ELSE IF PermissionDenied(post, u)
                                            THEN DeleteExcept(Forbidden)
                                            ELSE @]]
                 \/ req' = [req EXCEPT ![r] =
                              [new EXCEPT !.pc = "done", !.db_raised = TRUE,
                                 !.resp = DeleteExcept(Error("select failed"))]]
    /\ started' = started + 1
    /\ UNCHANGED <<posts, users, tmp_files, media, clock, acked>>

\* await session.delete(post); await session.commit(); return {...}.  When
\* another request has removed the row in between, the DELETE matches no row:
\* the session either goes on (a warning) or raises.
DeleteCommit(r) ==
    /\ req[r].kind = "delete" /\ req[r].pc = "commit"
    /\ \/ /\ req[r].post \in posts
          /\ posts' = DeleteRow(posts, req[r].post)
          /\ req' = [req EXCEPT ![r].pc = "done", ![r].resp = DeleteAck,
                       ![r].removed = posts \ posts']
          /\ acked' = acked \cup {req[r].post.id}
       \/ /\ req[r].post \notin posts
          /\ \/ /\ req' = [req EXCEPT ![r].pc = "done",
                             ![r].resp = DeleteAck]
                /\ acked' = acked \cup {req[r].post.id}
             \/ /\ req' = [req EXCEPT ![r].pc = "done",
                             ![r].resp = DeleteExcept(Error("stale row"))]
                /\ UNCHANGED acked
          /\ UNCHANGED posts
       \/ /\ req' = [req EXCEPT ![r].pc = "done", ![r].db_raised = TRUE,
                       ![r].resp = DeleteExcept(Error("commit failed"))]
          /\ UNCHANGED <<posts, acked>>
    /\ UNCHANGED <<users, tmp_files, media, clock,
                   started>>

\* ------------------------------------------------------- other requests
\* Variant: the identity is looked at inside the handler, after the inbound
\* stream has been staged.
UnauthenticatedAfterStaging(r) ==
    /\ Arrives(r)
    /\ \E op \in {"upload", "feed", "delete"} :
         /\ req' = [req EXCEPT ![r] =
                      [kind |-> "rejected", op |-> op, pc |-> "done",
                       user |-> 0, resp |-> Unauthorized]]
         /\ tmp_files' = IF op = "upload"
                         THEN tmp_files \cup {TempName(started + 1)}
                         ELSE tmp_files
    /\ started' = started + 1
    /\ UNCHANGED <<posts, users, media, clock, acked>>

\* Depends(current_active_user): a request without a valid token is answered
\* before the handler runs.
Unauthenticated(r) ==
    /\ Arrives(r)
    /\ \E op \in {"upload", "feed", "delete"} :
         req' = [req EXCEPT ![r] =
                   [kind |-> "rejected", op |-> op, pc |-> "done",
                    user |-> 0, resp |-> Unauthorized]]
    /\ started' = started + 1
    /\ UNCHANGED <<posts, users, tmp_files, media, clock, acked>>

\* The users router removes an identity.
RemoveUser ==
    /\ \E u \in users : users' = users \ {u}
    /\ UNCHANGED <<posts, tmp_files, media, clock, req,
                   started, acked>>

\* The response has gone out; the slot takes the next request.
Complete(r) ==
    /\ req[r].pc = "done"
    /\ req' = [req EXCEPT ![r] = Idle]
    /\ UNCHANGED <<posts, users, tmp_files, media, clock, started, acked>>

Next ==
    \/ \E r \in Slots : Stage(r)
    \/ \E r \in Slots : RemoteUpload(r)
    \/ \E r \in Slots : Commit(r)
    \/ \E r \in Slots : Refresh(r)
    \/ \E r \in Slots : FeedPosts(r)
    \/ \E r \in Slots : FeedUsers(r)
    \/ \E r \in Slots : DeleteLookup(r)
    \/ \E r \in Slots : DeleteCommit(r)
    \/ \E r \in Slots : Unauthenticated(r)
    \/ \E r \in Slots : Complete(r)

Spec == Init /\ [][Next]_vars

\* The feed and delete handlers while identities leave through the users
\* router.
NextUsers ==
    \/ \E r \in Slots : FeedPosts(r)
    \/ \E r \in Slots : FeedUsers(r)
    \/ \E r \in Slots : DeleteLookup(r)
    \/ \E r \in Slots : DeleteCommit(r)
    \/ \E r \in Slots : Complete(r)
    \/ RemoveUser

SpecUsers == Init /\ [][NextUsers]_vars

\* ================================================================ claims
UploadDone(r) == req[r].kind = "upload" /\ req[r].pc = "done"
FeedDone(r) == req[r].kind = "feed" /\ req[r].pc = "done"
DeleteDone(r) == req[r].kind = "delete" /\ req[r].pc = "done"

\* The remote-store call of upload r was made and failed: it answered a
\* status other than 200, or raised (recorded as status -1).
RemoteFailed(r) == req[r].upload_result.status \notin {0, HTTP_OK}

\* C1: every upload that staged a temporary file and has completed, with a
\* post, with a non-200 answer of the remote store or with an exception, has
\* left no temporary file behind; with no upload in flight the temporary
\* directory is empty.
C1_TempFileRemoved ==
    /\ \A r \in Slots :
         UploadDone(r) /\ req[r].temp_file_path /= NoPath
            => req[r].temp_file_path \notin tmp_files
    /\ (\A r \in Slots : req[r].kind = "upload" => req[r].pc = "done")
            => tmp_files = {}

\* C1 witness: an upload that staged a file, stored it remotely and then
\* failed has completed.
C1_Witness ==
    \E r \in Slots :
        /\ UploadDone(r)
        /\ req[r].temp_file_path /= NoPath
        /\ req[r].upload_result.status = HTTP_OK
        /\ req[r].resp.status = 500

\* C2: an upload whose remote-store call failed (non-200 status or an
\* exception) has created no Post: it holds none, and the store holds no row
\* with the id this request would have been given.
C2_NoPostOnRemoteFailure ==
    \A r \in Slots :
        UploadDone(r) /\ RemoteFailed(r)
            => /\ req[r].post = NoPost
               /\ \A p \in posts : p.id /= NewId(req[r].n)

\* C2 witness: an upload answered with a non-200 status has completed while
\* the store holds posts.
C2_Witness ==
    \E r \in Slots :
        /\ UploadDone(r)
        /\ req[r].upload_result.status \in FailureStatuses
        /\ posts /= {}

\* C3 (as claimed): when the remote store returns a non-200 status without
\* raising, the upload answers 500.
C3_NonOkStatusAnswers500 ==
    \A r \in Slots :
        UploadDone(r) /\ req[r].upload_result.status \in FailureStatuses
            => req[r].resp.status = 500

\* C4: an upload that returns its Post (the handler's return post) has added
\* exactly that one row to the store: the row has this request's fresh id,
\* the caller's id as user_id, and the url and file_name the remote store
\* returned for this call; no other row carries that url or file_name.
C4_SuccessfulUploadCreatesOnePost ==
    \A r \in Slots :
        UploadDone(r) /\ "post" \in DOMAIN req[r].resp
            => LET p == req[r].resp.post
               IN /\ req[r].resp.status = 200
                  /\ p = req[r].post
                  /\ p \in posts \/ p.id \in acked
                  /\ p.id = NewId(req[r].n)
                  /\ p.user_id = req[r].user
                  /\ req[r].upload_result.status = HTTP_OK
                  /\ p.url = req[r].upload_result.url
                  /\ p.file_name = req[r].upload_result.name
                  /\ p.url = StoredUrl(req[r].n)
                  /\ p.file_name = StoredName(req[r].n)
                  /\ \A q \in posts :
                        (q.id = p.id \/ q.url = p.url
                            \/ q.file_name = p.file_name) => q = p

\* C4 witness: an upload by user 2 has returned its Post.
C4_Witness ==
    \E r \in Slots :
        /\ UploadDone(r)
        /\ "post" \in DOMAIN req[r].resp
        /\ req[r].user = 2
        /\ req[r].resp.post \in posts

\* C5 (as claimed): a delete whose lookup finds a post of another identity
\* answers 403 "You dont have permission to delete this post".
C5_NonOwnerDeleteAnswers403 ==
    \A r \in Slots :
        (/\ DeleteDone(r)
         /\ req[r].post /= NoPost
         /\ req[r].post.user_id /= req[r].user)
            => req[r].resp = ErrorResponse(Forbidden)

\* C6 (as claimed): a delete with a well-formed identifier whose lookup finds
\* no post answers 404 "Post not found".
C6_MissingPostAnswers404 ==
    \A r \in Slots :
        (/\ DeleteDone(r)
         /\ UUIDValid(req[r].post_id)
         /\ req[r].lookups = 1
         /\ req[r].post = NoPost)
            => req[r].resp = ErrorResponse(NotFound)

\* C7: no step of a delete request that does not end in the acknowledgment
\* changes the Post table (malformed id, post not found, caller not the
\* owner, storage error), and the step in which a non-owner's lookup finds
\* the post leaves that post in the table, every field as it was.
C7_FailedDeleteChangesNothing ==
    [][\A r \in Slots :
         (/\ req'[r] /= req[r]
          /\ req'[r].kind = "delete"
          /\ \/ req'[r].pc /= "done"
             \/ req'[r].resp.status /= 200
             \/ /\ req'[r].post /= NoPost
                /\ req'[r].post.user_id /= req'[r].user)
            => /\ posts' = posts
               /\ (/\ req'[r].post /= NoPost
                   /\ req'[r].post.user_id /= req'[r].user)
                     => req'[r].post \in posts']_vars

\* C7 witness: a delete by a non-owner has ended in an error and its target
\* is in the table.
C7_Witness ==
    \E r \in Slots :
        /\ DeleteDone(r)
        /\ req[r].post /= NoPost
        /\ req[r].post.user_id /= req[r].user
        /\ req[r].resp.status /= 200
        /\ req[r].post \in posts

C9_RacingDeletesOneAckOne404 ==
    \A r1, r2 \in Slots :
        (/\ r1 < r2
         /\ DeleteDone(r1) /\ DeleteDone(r2)
         /\ req[r1].user = req[r2].user
         /\ UUIDValid(req[r1].post_id) /\ UUIDValid(req[r2].post_id)
         /\ UUIDParse(req[r1].post_id) = UUIDParse(req[r2].post_id)
         /\ ~req[r1].db_raised /\ ~req[r2].db_raised
         /\ \E r \in {r1, r2} :
               req[r].post /= NoPost /\ req[r].post.user_id = req[r].user)
            => /\ \/ req[r1].resp = DeleteAck /\ req[r2].resp.status = 404
                  \/ req[r2].resp = DeleteAck /\ req[r1].resp.status = 404
               /\ \A p \in posts : p.id /= UUIDParse(req[r1].post_id)

\* C10: in every feed response, is_owner of a post is true exactly when the
\* post's user_id is the id of the caller who asked for the feed.
C10_IsOwnerIffCallerOwns ==
    \A r \in Slots :
        FeedDone(r) /\ req[r].resp.status = 200
            => /\ Len(req[r].resp.posts) = Len(req[r].posts)
               /\ \A i \in DOMAIN req[r].resp.posts :
                     /\ req[r].resp.posts[i].user_id
                           = StrUUID(req[r].posts[i].user_id)
                     /\ req[r].resp.posts[i].is_owner
                           <=> (req[r].posts[i].user_id = req[r].user)

\* C10 witness: a feed response holds a post of the caller and a post of
\* another identity.
C10_Witness ==
    \E r \in Slots :
        /\ FeedDone(r)
        /\ req[r].resp.status = 200
        /\ \E i, j \in DOMAIN req[r].resp.posts :
              /\ req[r].resp.posts[i].is_owner
              /\ ~req[r].resp.posts[j].is_owner

\* The set of elements of a sequence.
Range(f) == {f[i] : i \in DOMAIN f}

\* C11: when the posts a feed reads have pairwise distinct created_at, its
\* response lists them strictly descending by created_at.
C11_FeedSortedDescending ==
    \A r \in Slots :
        (/\ FeedDone(r) /\ req[r].resp.status = 200
         /\ \A p, q \in Range(req[r].posts) :
               p /= q => p.created_at /= q.created_at)
            => /\ Len(req[r].resp.posts) = Len(req[r].posts)
               /\ \A i \in DOMAIN req[r].resp.posts :
                     req[r].resp.posts[i].created_at
                        = IsoFormat(req[r].posts[i].created_at)
               /\ \A i, j \in DOMAIN req[r].posts :
                     i < j => req[r].posts[i].created_at
                                 > req[r].posts[j].created_at

\* C11 witness: a feed response lists three posts with three different
\* created_at.
C11_Witness ==
    \E r \in Slots :
        /\ FeedDone(r) /\ req[r].resp.status = 200
        /\ Len(req[r].resp.posts) = 3
        /\ Cardinality({p.created_at : p \in Range(req[r].posts)}) = 3

\* C12: in the step that produces a feed response, each post's email is the
\* email of the identity with the post's user_id when the User table holds
\* one, and "Unknown" when it holds none.
C12_EmailOrUnknown ==
    [][\A r \in Slots :
         (/\ req'[r] /= req[r]
          /\ req'[r].kind = "feed" /\ req'[r].pc = "done"
          /\ req'[r].resp.status = 200)
            => \A i \in DOMAIN req'[r].resp.posts :
                  req'[r].resp.posts[i].email
                     = IF req'[r].posts[i].user_id \in users
                       THEN Email(req'[r].posts[i].user_id)
                       ELSE "Unknown"]_vars

\* C12 witness: a feed response names one owner by email and another, whose
\* identity has left, as "Unknown".
C12_Witness ==
    \E r \in Slots :
        /\ FeedDone(r) /\ req[r].resp.status = 200
        /\ \E i, j \in DOMAIN req[r].resp.posts :
              /\ req[r].resp.posts[i].email = "Unknown"
              /\ req[r].posts[i].user_id \notin users
              /\ req[r].resp.posts[j].email = Email(req[r].posts[j].user_id)
              /\ req[r].posts[j].user_id \in users

\* The first six characters of a content type spell video/.
BeginsVideoSlash(ct) ==
    /\ Len(ct) >= 6
    /\ ct[1] = "v" /\ ct[2] = "i" /\ ct[3] = "d" /\ ct[4] = "e"
    /\ ct[5] = "o" /\ ct[6] = "/"

\* C13: the Post a successful upload returns has file_type "video" when the
\* inbound content type starts with video/ and "image" otherwise, and so has
\* the row it added to the store.
C13_FileTypeFromContentType ==
    \A r \in Slots :
        (/\ req[r].kind = "upload"
         /\ req[r].post /= NoPost)
            => /\ req[r].post.file_type
                     = IF BeginsVideoSlash(req[r].content_type)
                       THEN "video" ELSE "image"
               /\ \A p \in posts :
                     p.id = req[r].post.id => p.file_type = req[r].post.file_type
               /\ (UploadDone(r) /\ "post" \in DOMAIN req[r].resp)
                     => req[r].resp.post.file_type = req[r].post.file_type

\* C13 witness: two uploads have returned their Posts, one sent as video/mp4
\* and stored as video, one sent as the bare word video and stored as image.
C13_Witness ==
    \E r1, r2 \in Slots :
        /\ UploadDone(r1) /\ "post" \in DOMAIN req[r1].resp
        /\ UploadDone(r2) /\ "post" \in DOMAIN req[r2].resp
        /\ req[r1].content_type = VideoMp4
        /\ req[r1].resp.post.file_type = "video"
        /\ req[r2].content_type = VideoNoSlash
        /\ req[r2].resp.post.file_type = "image"

\* C14: the step that answers an upload, feed or delete request without a
\* caller identity rejects it and changes nothing: no temporary file, no
\* object in the media store, no Post created or deleted.
C14_UnauthenticatedRejectedFirst ==
    [][\A r \in Slots :
         (req'[r] /= req[r] /\ req'[r].kind = "rejected")
            => /\ req'[r].pc = "done"
               /\ req'[r].resp.status >= 400
               /\ tmp_files' = tmp_files
               /\ media' = media
               /\ posts' = posts
               /\ users' = users
               /\ acked' = acked]_vars

\* C14 witness: an upload and a delete without an identity have both been
\* rejected.
C14_Witness ==
    \E r1, r2 \in Slots :
        /\ req[r1].kind = "rejected" /\ req[r1].op = "upload"
        /\ req[r2].kind = "rejected" /\ req[r2].op = "delete"
        /\ tmp_files = {} /\ posts = InitialPosts

\* C15: an upload whose remote-store call answered 200 and whose building or
\* committing of the Post then raised (it completed without ever holding a
\* committed Post) answers 500, has left no row of its own in the store, and
\* has left its media object in the remote store.
C15_FailureAfterRemoteSuccess ==
    \A r \in Slots :
        (/\ UploadDone(r)
         /\ req[r].upload_result.status = HTTP_OK
         /\ req[r].post = NoPost)
            => /\ req[r].resp.status = 500
               /\ \A p \in posts :
                     /\ p.id /= NewId(req[r].n)
                     /\ p.url /= req[r].upload_result.url
                     /\ p.file_name /= req[r].upload_result.name
               /\ req[r].upload_result.name \in media

\* C15 witness: the commit of an upload raised after the remote store had
\* stored the file.
C15_Witness ==
    \E r \in Slots :
        /\ UploadDone(r)
        /\ req[r].upload_result.status = HTTP_OK
        /\ req[r].post = NoPost
        /\ req[r].content_type /= NoContentType
        /\ req[r].resp = UploadExcept(Error("commit failed"))
        /\ req[r].upload_result.name \in media

\* C16 (as claimed): an acknowledged delete returns a record whose field
\* success is true and whose field message is "Post deleted successfully".
C16_DeleteAckHasMessage ==
    \A r \in Slots :
        DeleteDone(r) /\ req[r].resp.status = 200
            => /\ "success" \in DOMAIN req[r].resp
               /\ req[r].resp.success = TRUE
               /\ "message" \in DOMAIN req[r].resp
               /\ req[r].resp.message = "Post deleted successfully"

\* C17: a delete whose post_id does not parse as an identifier answers the
\* generic 500, has made no lookup and has removed nothing.
C17_MalformedIdAnswers500 ==
    \A r \in Slots :
        DeleteDone(r) /\ ~UUIDValid(req[r].post_id)
            => /\ req[r].resp.status = 500
               /\ req[r].lookups = 0
               /\ req[r].post = NoPost
               /\ req[r].removed = {}

\* C17 witness: a delete with the malformed identifier z has been answered
\* and the table is as it was.
C17_Witness ==
    \E r \in Slots :
        /\ DeleteDone(r)
        /\ req[r].post_id = <<"z">>
        /\ req[r].resp.status = 500
        /\ posts = InitialPosts

\* C18: in every step, each Post of the store either stays, with its id,
\* user_id, url and file_name as they were and as the only row of that id,
\* or leaves in the commit step of a delete request whose caller is the
\* post's user_id and whose target is that post.
C18_OnlyOwnerDeleteRemoves ==
    [][\A p \in posts :
         \/ /\ \E q \in posts' :
                  /\ q.id = p.id
                  /\ q.user_id = p.user_id
                  /\ q.url = p.url
                  /\ q.file_name = p.file_name
            /\ Cardinality({q \in posts' : q.id = p.id}) = 1
         \/ /\ \A q \in posts' : q.id /= p.id
            /\ \E r \in Slots :
                  /\ req[r].kind = "delete" /\ req[r].pc = "commit"
                  /\ req'[r].pc = "done"
                  /\ req'[r].resp = DeleteAck
                  /\ req[r].post = p
                  /\ req[r].user = p.user_id]_vars

\* C18 witness: an owner's delete has removed its target, a post uploaded in
\* this run is in the store next to a post that was there from the start.
C18_Witness ==
    \E r \in Slots :
        /\ DeleteDone(r)
        /\ req[r].resp = DeleteAck
        /\ req[r].removed = {req[r].post}
        /\ req[r].post.user_id = req[r].user
        /\ posts \cap InitialPosts /= {}
        /\ posts \ InitialPosts /= {}

\* An upload between its staging and its finally block.
UploadInFlight(r) ==
    req[r].kind = "upload" /\ req[r].pc \in {"remote", "commit", "refresh"}

\* C19: two uploads that staged a file staged different files; an upload in
\* flight finds its own temporary file in place whatever the other request
\* has cleaned up; an upload holds a post only of its own remote result
\* (status 200, that url and name, its own caller), and holds none when its
\* own remote call failed.
C19_ConcurrentUploadsIndependent ==
    /\ \A r1, r2 \in Slots :
         (/\ r1 /= r2
          /\ req[r1].kind = "upload" /\ req[r2].kind = "upload"
          /\ req[r1].temp_file_path /= NoPath
          /\ req[r2].temp_file_path /= NoPath)
            => req[r1].temp_file_path /= req[r2].temp_file_path
    /\ \A r \in Slots :
         UploadInFlight(r) => req[r].temp_file_path \in tmp_files
    /\ \A r \in Slots :
         req[r].kind = "upload"
            => /\ req[r].post /= NoPost
                  => /\ req[r].upload_result.status = HTTP_OK
                     /\ req[r].post.url = req[r].upload_result.url
                     /\ req[r].post.file_name = req[r].upload_result.name
                     /\ req[r].post.url = StoredUrl(req[r].n)
                     /\ req[r].post.user_id = req[r].user
               /\ RemoteFailed(r) => req[r].post = NoPost

\* C19 witness: the upload that came second has run to its end on a failed
\* remote call and its file is cleaned up, while the upload that came first
\* is still in flight, holds its post and has its temporary file.
C19_Witness ==
    \E r1, r2 \in Slots :
        /\ UploadDone(r1) /\ RemoteFailed(r1)
        /\ req[r1].temp_file_path \notin tmp_files
        /\ UploadInFlight(r2)
        /\ req[r2].n < req[r1].n
        /\ req[r2].post /= NoPost
        /\ req[r2].temp_file_path \in tmp_files

\* C20: the step in which a feed request queries the posts reads each Post of
\* the store exactly once and nothing else; the step that answers lists the
\* rows read, one element each, under their ids; no step of a feed request
\* changes the Post table or the User table.
C20_FeedIsWholeStore ==
    [][\A r \in Slots :
         (req'[r] /= req[r] /\ req'[r].kind = "feed")
            => /\ posts' = posts
               /\ users' = users
               /\ req'[r].pc = "users"
                     => /\ Len(req'[r].posts) = Cardinality(posts)
                        /\ Range(req'[r].posts) = posts
               /\ (req'[r].pc = "done" /\ req'[r].resp.status = 200)
                     => /\ req'[r].posts = req[r].posts
                        /\ Len(req'[r].resp.posts) = Len(req[r].posts)
                        /\ \A i \in DOMAIN req'[r].resp.posts :
                              LET v == req'[r].resp.posts[i]
                              IN /\ UUIDValid(v.id)
                                 /\ UUIDParse(v.id) = req[r].posts[i].id
                                 /\ v.url = req[r].posts[i].url
                                 /\ v.file_name
                                       = req[r].posts[i].file_name]_vars

\* C20 witness: a feed has answered with the three posts of the store, each
\* id once.
C20_Witness ==
    \E r \in Slots :
        /\ FeedDone(r) /\ req[r].resp.status = 200
        /\ Cardinality(posts) = 3
        /\ Range(req[r].posts) = posts
        /\ {UUIDParse(req[r].resp.posts[i].id) :
               i \in DOMAIN req[r].resp.posts} = {p.id : p \in posts}
        /\ Len(req[r].resp.posts) = 3

====
